---- MODULE Spec2Model ----
(***************************************************************************)
(* Model of the perceptual duplicate detection pipeline:                   *)
(*   - the batch checkpoint driver  scripts/main/build_hash_index.py       *)
(*     (run_from_config) with utils/io.py, utils/state.py and              *)
(*     tools/hash_indexer.py, run repeatedly over a persistent state file, *)
(*     index file and error sidecar, with process kills and I/O errors;    *)
(*   - the duplicate scanner        tools/duplicate_scanner.py             *)
(*     (DuplicateScanner.find_duplicates) as a function of an index.       *)
(*   - IncrementalState (utils/state.py) on its own: load of any state     *)
(*     file, needs_processing and mark_processed on any state.             *)
(*   - the worker pool of HashIndexer.build_index task by task (SpecPool), *)
(*     the banding functions of the scanner on any hash width (SpecBands)  *)
(*     and scripts/main/generate_presigned_links.py with its link state    *)
(*     file and link index output (SpecLinks).                             *)
(* Files are modelled at row granularity: the index is the sequence of its *)
(* data rows, a row is its image_name and the content version (the etag of *)
(* the object that was fetched and hashed).                                *)
(***************************************************************************)
EXTENDS Integers, Sequences, FiniteSets, TLC

VARIABLES
    catalog,      \* the object store: key -> etag listed, or NoObj
    stateFile,    \* the state file on disk: [kind, seen]
    indexFile,    \* the index CSV on disk: sequence of rows [id, ver]
    errFile,      \* the error sidecar CSV on disk: sequence of failure records
    pc,           \* position of the driver process
    mem,          \* IncrementalState.seen of the running process
    todo,         \* run_from_config: todo
    start,        \* run_from_config: start of the current batch (0-based)
    dfBatch,      \* run_from_config: df_batch (rows in completion order)
    failedObjs,   \* objects of the batch whose future raised
    failures,     \* run_from_config: failures
    runs,         \* number of runs started
    changed,      \* the catalog has changed since the first run
    ckpt,         \* history: the state file as of the last checkpoint of this run
    total_failed,    \* run_from_config: total_failed
    processed_total, \* run_from_config: processed_total (rows appended by this run)
    hashed,       \* history: number of objects submitted to the worker pool in this run
    consolidated, \* history: the consolidation pass of this run read and deduplicated the index
    preIndex,     \* history: the index the consolidation pass read
    lostBatch,    \* history: ids of the batch appended but not checkpointed when the last run was killed
    atStart,      \* history: [index, state, err] files when the run started
    lastOk,       \* history: the last run returned normally with no failure, catalog unchanged since
    prevOk,       \* history: lastOk as it was when this run started
    cause,        \* history: the call that raised when the run was aborted
    scanDf,           \* find_duplicates: df, the index frame given to the scanner
    distance_threshold, \* DuplicateScanner.distance_threshold
    num_bands,        \* DuplicateScanner.num_bands
    matches,          \* find_duplicates: the matches returned
    scanPc,           \* position of the scan
    out,              \* find_duplicates: the sorted frame returned, as a list
    call,             \* the last call made on the unit under test
    workers,          \* build_dataframe: the task of each object of the batch
    linkStateFile,    \* the link state file on disk: [kind, links]
    linkOut,          \* the link index output on disk: [kind, keys]
    linkPc,           \* position of the link generation process
    linkMem,          \* LinkState.links of the running process
    records           \* generate_links: the keys of the records returned

drv == <<catalog, stateFile, indexFile, errFile, pc, mem, todo, start, dfBatch,
         failedObjs, failures, runs, changed, ckpt, total_failed, processed_total,
         hashed, consolidated, preIndex, lostBatch, atStart, lastOk, prevOk, cause>>

scan == <<scanDf, distance_threshold, num_bands, matches, scanPc, out>>

lnk == <<linkStateFile, linkOut, linkPc, linkMem, records>>

rest == <<workers, lnk>>

vars == <<drv, scan, call, rest>>

\* ------------------------------------------------------------------ bounds
MaxRuns == 3
MaxThreshold == 1
MaxBands == 2
MaxTotalBits == 6
MaxNumBands == 7

\* ------------------------------------------------------------- the domain
Keys == {"a", "b", "c"}
KeyRank == [k \in Keys |-> CASE k = "a" -> 1 [] k = "b" -> 2 [] k = "c" -> 3]
\* aws_client.py: etag = meta.get("ETag", "").strip('"'); "" when the listing has none
Etags == {"", "e1", "e2"}
NoObj == "absent"
NoEntry == "None"
\* what the listing can show for each key: "a" is replaced by a new version,
\* "b" is listed with or without an ETag, "c" is uploaded or removed
Listable == [k \in Keys |-> CASE k = "a" -> {"e1", "e2"}
                              [] k = "b" -> {"", "e1"}
                              [] k = "c" -> {"e1", NoObj}]

\* batch_size of run_from_config, scaled down from 1000
batch_size == 2

Min(x, y) == IF x < y THEN x ELSE y

Range(s) == {s[i] : i \in 1..Len(s)}

Prefix(s, n) == SubSeq(s, 1, n)

RECURSIVE SeqOfSet(_)
\* the keys of a set in listing (lexicographic) order
SeqOfSet(S) ==
    IF S = {} THEN <<>>
    ELSE LET k == CHOOSE x \in S : \A y \in S : KeyRank[x] <= KeyRank[y]
         IN  <<k>> \o SeqOfSet(S \ {k})

\* all orders in which the elements of a set can be enumerated
RECURSIVE Orders(_)
Orders(S) ==
    IF S = {} THEN {<<>>}
    ELSE UNION {{<<x>> \o t : t \in Orders(S \ {x})} : x \in S}

\* ------------------------------------------------- utils/state.py, utils/io.py
EmptySeen == [k \in Keys |-> NoEntry]

AbsentFile == [kind |-> "absent", seen |-> EmptySeen]

\* no call made yet on the unit under test
NoCall == [op |-> "none"]

\* no task submitted to the pool
NoWorkers == [k \in Keys |-> "idle"]

\* LinkState(links={}), a missing link state file, a missing link index
NoLinks == [k \in Keys |-> NoEntry]

AbsentLinkFile == [kind |-> "absent", links |-> NoLinks]

AbsentOut == [kind |-> "absent", keys |-> {}]

\* IncrementalState.load: a missing file is the empty state; json.load raises
\* on a document that is not well-formed JSON (kind "torn": cut short or
\* otherwise malformed)
LoadRaises(file) == file.kind = "torn"

\* data.get("seen", {}): a well-formed document without the "seen" field
\* (kind "nofield") loads as the empty state
Load(file) == IF file.kind \in {"absent", "nofield"} THEN EmptySeen ELSE file.seen

\* IncrementalState.save completed: the whole snapshot replaces the file
Save(seen) == [kind |-> "valid", seen |-> seen]

\* IncrementalState.save interrupted after open(path, "w") truncated the file
\* and before json.dump and close completed: a cut-short document holding at
\* most the entries that were being written
TornSave(seen) == [kind |-> "torn", seen |-> seen]

\* a test that looks only at whether the identifier has an entry
needs_processing_no_entry(seen, key, etag) == seen[key] = NoEntry

\* a mark that keeps the entry an identifier already has
mark_processed_if_new(seen, key, etag) ==
    IF seen[key] = NoEntry THEN [seen EXCEPT ![key] = etag] ELSE seen

\* self.seen.get(key) != etag
needs_processing(seen, key, etag) == seen[key] # etag

mark_processed(seen, key, etag) == [seen EXCEPT ![key] = etag]

\* append_dataframe: df.to_csv(output, mode="a")
append_dataframe(df, file) == file \o df

\* write_dataframe: df.to_csv(output), the file is replaced by df
write_dataframe(df, file) == df

\* ------------------------------------------------- clients/aws_client.py
\* list_s3_images_with_metadata: one S3Object per listed key, in listing order
ListObjects(cat) ==
    LET ks == SeqOfSet({k \in Keys : cat[k] # NoObj})
    IN  [i \in 1..Len(ks) |-> [key |-> ks[i], etag |-> cat[ks[i]]]]

\* ------------------------------------------------- tools/hash_indexer.py
\* HashRecord.to_row for the object: image_name and the hashes of its content
to_row(o) == [id |-> o.key, ver |-> o.etag]

\* HashIndexer.build_dataframe(objects): every outcome of the worker pool.
\* failed is the set of objects whose future raised (logged, not kept);
\* records are appended in completion order; with no record at all
\* pd.DataFrame([]) has no column and df[meta_cols + hash_cols] raises KeyError.
build_dataframe(objects) ==
    UNION {
      LET ok == Range(objects) \ F IN
      IF ok = {}
      THEN {[raised |-> TRUE, df |-> <<>>, failed |-> F]}
      ELSE {[raised |-> FALSE,
             df |-> [i \in 1..Len(ord) |-> to_row(ord[i])],
             failed |-> F] : ord \in Orders(ok)}
      : F \in SUBSET Range(objects)}

\* HashIndexer.drain_failures(): called by run_from_config, defined nowhere in
\* hash_indexer.py; taken from the contract process(work_items) -> (rows,
\* failures: list({identifier, error_message}))
drain_failures(failed) ==
    LET ks == SeqOfSet({o.key : o \in failed})
    IN  [i \in 1..Len(ks) |-> [id |-> ks[i], error |-> "error"]]

\* ------------------------------------------------- scripts/main/build_hash_index.py
\* todo = [o for o in all_objs if state.needs_processing(o.key, o.etag)]
Todo(all_objs, seen) ==
    SelectSeq(all_objs, LAMBDA o : needs_processing(seen, o.key, o.etag))

BatchEnd(st, total) == Min(st + batch_size, total)

\* a slice that starts one item early after the first batch
BatchOverlapping(td, st) ==
    SubSeq(td, IF st = 0 THEN 1 ELSE st, BatchEnd(st, Len(td)))

\* batch = todo[start:end]
Batch(td, st) == SubSeq(td, st + 1, BatchEnd(st, Len(td)))

\* key_to_etag = {o.key: o.etag for o in batch}; .get(key) is None off the batch
key_to_etag(batch, key) ==
    IF \E o \in Range(batch) : o.key = key
    THEN (CHOOSE o \in Range(batch) : o.key = key).etag
    ELSE NoEntry

\* if etag: (neither None nor the empty string)
Truthy(etag) == etag # NoEntry /\ etag # ""

\* for key in df_batch["image_name"]: etag = key_to_etag.get(key);
\*     if etag: state.mark_processed(key, etag)
RECURSIVE MarkBatch(_, _, _)
MarkBatch(seen, df, batch) ==
    IF df = <<>> THEN seen
    ELSE LET key  == Head(df).id
             etag == key_to_etag(batch, key)
         IN  MarkBatch(IF Truthy(etag) THEN mark_processed(seen, key, etag) ELSE seen,
                       Tail(df), batch)

\* df_all.sort_values("image_name"): the default sort kind is quicksort, which
\* is not stable, so rows with the same image_name may come out in any order
SortValues(rows) ==
    LET Block(k) == SelectSeq(rows, LAMBDA r : r.id = k)
        Perms(b) == {[i \in 1..Len(b) |-> b[p[i]]] : p \in Permutations(1..Len(b))}
    IN  {x \o y \o z : x \in Perms(Block("a")), y \in Perms(Block("b")),
                       z \in Perms(Block("c"))}

\* a consolidation that drops nothing
DropDuplicatesNone(rows) == rows

\* drop_duplicates(subset=["image_name"], keep="last")
RECURSIVE DropDuplicatesKeepLast(_)
DropDuplicatesKeepLast(rows) ==
    IF rows = <<>> THEN <<>>
    ELSE IF \E j \in 2..Len(rows) : rows[j].id = Head(rows).id
         THEN DropDuplicatesKeepLast(Tail(rows))
         ELSE <<Head(rows)>> \o DropDuplicatesKeepLast(Tail(rows))

\* the outcomes of lines 115-118: the deduplicated frame
Dedup(rows) == {DropDuplicatesKeepLast(s) : s \in SortValues(rows)}

Ids(rows) == {rows[i].id : i \in 1..Len(rows)}

Count(rows, k) == Cardinality({i \in 1..Len(rows) : rows[i].id = k})

\* ------------------------------------------------- the driver process
Running == pc \notin {"idle", "done", "aborted", "killed"}

\* what a process that ended leaves behind: its memory is gone
EndRun(newpc, why) ==
    /\ pc' = newpc
    /\ cause' = why
    /\ mem' = EmptySeen
    /\ todo' = <<>>
    /\ start' = 0
    /\ dfBatch' = <<>>
    /\ failedObjs' = {}
    /\ failures' = <<>>

Init ==
    /\ catalog \in {c \in [Keys -> Etags \cup {NoObj}] : \A k \in Keys : c[k] \in Listable[k]}
    /\ stateFile = AbsentFile
    /\ indexFile = <<>>
    /\ errFile = <<>>
    /\ pc = "idle"
    /\ mem = EmptySeen
    /\ todo = <<>>
    /\ start = 0
    /\ dfBatch = <<>>
    /\ failedObjs = {}
    /\ failures = <<>>
    /\ runs = 0
    /\ changed = FALSE
    /\ ckpt = AbsentFile
    /\ total_failed = 0
    /\ processed_total = 0
    /\ hashed = 0
    /\ consolidated = FALSE
    /\ preIndex = <<>>
    /\ lostBatch = {}
    /\ atStart = [index |-> <<>>, state |-> AbsentFile, err |-> <<>>]
    /\ lastOk = FALSE
    /\ prevOk = FALSE
    /\ cause = ""
    /\ scanDf = <<>>
    /\ distance_threshold = 0
    /\ num_bands = 1
    /\ matches = {}
    /\ scanPc = "idle"
    /\ out = <<>>
    /\ call = NoCall
    /\ workers = NoWorkers
    /\ linkStateFile = AbsentLinkFile
    /\ linkOut = AbsentOut
    /\ linkPc = "idle"
    /\ linkMem = NoLinks
    /\ records = {}

\* between two runs an object is uploaded, replaced or removed (once)
CatalogChange ==
    /\ ~Running
    /\ ~changed
    /\ \E k \in Keys : \E e \in Listable[k] :
          /\ e # catalog[k]
          /\ catalog' = [catalog EXCEPT ![k] = e]
    /\ changed' = TRUE
    /\ lastOk' = FALSE
    /\ UNCHANGED <<stateFile, indexFile, errFile, pc, mem, todo, start, dfBatch,
                   failedObjs, failures, runs, ckpt, total_failed, processed_total,
                   hashed, consolidated, preIndex, lostBatch, atStart, prevOk, cause>>
    /\ UNCHANGED scan
    /\ UNCHANGED rest
    /\ UNCHANGED call

\* lines 31-33: a run starts; state = IncrementalState.load(cfg.state_path)
LoadState ==
    /\ ~Running
    /\ runs < MaxRuns
    /\ runs' = runs + 1
    /\ ckpt' = stateFile
    /\ atStart' = [index |-> indexFile, state |-> stateFile, err |-> errFile]
    /\ prevOk' = lastOk
    /\ lostBatch' = IF pc = "killed" THEN lostBatch ELSE {}
    /\ total_failed' = 0
    /\ processed_total' = 0
    /\ hashed' = 0
    /\ consolidated' = FALSE
    /\ preIndex' = <<>>
    /\ IF LoadRaises(stateFile)
       THEN /\ EndRun("aborted", "load")
            /\ lastOk' = FALSE
       ELSE /\ pc' = "loaded"
            /\ mem' = Load(stateFile)
            /\ cause' = ""
            /\ UNCHANGED <<todo, start, dfBatch, failedObjs, failures, lastOk>>
    /\ UNCHANGED <<catalog, stateFile, indexFile, errFile, changed>>
    /\ UNCHANGED scan
    /\ UNCHANGED rest
    /\ UNCHANGED call

\* lines 40-59: listing, the filter by state, the early return
ListAndFilter ==
    /\ pc = "loaded"
    /\ LET td == Todo(ListObjects(catalog), mem) IN
       IF td = <<>>
       THEN /\ EndRun("done", "")
            /\ lastOk' = TRUE
       ELSE /\ pc' = "batch"
            /\ todo' = td
            /\ start' = 0
            /\ UNCHANGED <<mem, dfBatch, failedObjs, failures, lastOk, cause>>
    /\ UNCHANGED <<catalog, stateFile, indexFile, errFile, runs, changed, ckpt,
                   total_failed, processed_total, hashed, consolidated, preIndex,
                   lostBatch, atStart, prevOk>>
    /\ UNCHANGED scan
    /\ UNCHANGED rest
    /\ UNCHANGED call

\* a listing consumed lazily, whose error surfaces after rows were appended
ListingFailsAfterAppend ==
    /\ pc = "rowsAppended"
    /\ EndRun("aborted", "listing")
    /\ lastOk' = FALSE
    /\ UNCHANGED <<catalog, stateFile, indexFile, errFile, runs, changed, ckpt,
                   total_failed, processed_total, hashed, consolidated, preIndex,
                   lostBatch, atStart, prevOk>>
    /\ UNCHANGED scan
    /\ UNCHANGED rest
    /\ UNCHANGED call

\* lines 40-52: list_s3_images_with_metadata raises, the run ends with the error
ListingFails ==
    /\ pc = "loaded"
    /\ EndRun("aborted", "listing")
    /\ lastOk' = FALSE
    /\ UNCHANGED <<catalog, stateFile, indexFile, errFile, runs, changed, ckpt,
                   total_failed, processed_total, hashed, consolidated, preIndex,
                   lostBatch, atStart, prevOk>>
    /\ UNCHANGED scan
    /\ UNCHANGED rest
    /\ UNCHANGED call

\* lines 79-85: df_batch = indexer.build_dataframe(batch)
BuildDataframe ==
    /\ pc = "batch"
    /\ hashed' = hashed + Len(Batch(todo, start))
    /\ \E r \in build_dataframe(Batch(todo, start)) :
          IF r.raised
          THEN /\ EndRun("aborted", "build_dataframe")
               /\ lastOk' = FALSE
          ELSE /\ pc' = "built"
               /\ dfBatch' = r.df
               /\ failedObjs' = r.failed
               /\ UNCHANGED <<mem, todo, start, failures, lastOk, cause>>
    /\ UNCHANGED <<catalog, stateFile, indexFile, errFile, runs, changed, ckpt,
                   total_failed, processed_total, consolidated, preIndex,
                   lostBatch, atStart, prevOk>>
    /\ UNCHANGED scan
    /\ UNCHANGED rest
    /\ UNCHANGED call

\* lines 86-91: failures = indexer.drain_failures(); the totals
DrainFailures ==
    /\ pc = "built"
    /\ failures' = drain_failures(failedObjs)
    /\ total_failed' = total_failed + Len(drain_failures(failedObjs))
    /\ pc' = "drained"
    /\ UNCHANGED <<catalog, stateFile, indexFile, errFile, mem, todo, start, dfBatch,
                   failedObjs, runs, changed, ckpt, processed_total, hashed,
                   consolidated, preIndex, lostBatch, atStart, lastOk, prevOk, cause>>
    /\ UNCHANGED scan
    /\ UNCHANGED rest
    /\ UNCHANGED call

\* lines 93-96: if not df_batch.empty: append_dataframe(df_batch, out)
AppendRows ==
    /\ pc = "drained"
    /\ IF dfBatch # <<>>
       THEN /\ indexFile' = append_dataframe(dfBatch, indexFile)
            /\ processed_total' = processed_total + Len(dfBatch)
       ELSE UNCHANGED <<indexFile, processed_total>>
    /\ pc' = "rowsAppended"
    /\ UNCHANGED <<catalog, stateFile, errFile, mem, todo, start, dfBatch,
                   failedObjs, failures, runs, changed, ckpt, total_failed, hashed,
                   consolidated, preIndex, lostBatch, atStart, lastOk, prevOk, cause>>
    /\ UNCHANGED scan
    /\ UNCHANGED rest
    /\ UNCHANGED call

\* line 95: to_csv raises after writing n of the rows (a storage write error)
AppendRowsFails ==
    /\ pc = "drained"
    /\ dfBatch # <<>>
    /\ \E n \in 0..(Len(dfBatch) - 1) :
          indexFile' = append_dataframe(Prefix(dfBatch, n), indexFile)
    /\ EndRun("aborted", "append_rows")
    /\ lastOk' = FALSE
    /\ UNCHANGED <<catalog, stateFile, errFile, runs, changed, ckpt, total_failed,
                   processed_total, hashed, consolidated, preIndex, lostBatch,
                   atStart, prevOk>>
    /\ UNCHANGED scan
    /\ UNCHANGED rest
    /\ UNCHANGED call

\* lines 98-102: if failures: append_dataframe(DataFrame(failures), err_out)
AppendFailures ==
    /\ pc = "rowsAppended"
    /\ IF failures # <<>>
       THEN errFile' = append_dataframe(failures, errFile)
       ELSE UNCHANGED errFile
    /\ pc' = "errsAppended"
    /\ UNCHANGED <<catalog, stateFile, indexFile, mem, todo, start, dfBatch,
                   failedObjs, failures, runs, changed, ckpt, total_failed,
                   processed_total, hashed, consolidated, preIndex, lostBatch,
                   atStart, lastOk, prevOk, cause>>
    /\ UNCHANGED scan
    /\ UNCHANGED rest
    /\ UNCHANGED call

\* line 102: the append to the sidecar raises
AppendFailuresFails ==
    /\ pc = "rowsAppended"
    /\ failures # <<>>
    /\ \E n \in 0..(Len(failures) - 1) :
          errFile' = append_dataframe(Prefix(failures, n), errFile)
    /\ EndRun("aborted", "append_failures")
    /\ lastOk' = FALSE
    /\ UNCHANGED <<catalog, stateFile, indexFile, runs, changed, ckpt, total_failed,
                   processed_total, hashed, consolidated, preIndex, lostBatch,
                   atStart, prevOk>>
    /\ UNCHANGED scan
    /\ UNCHANGED rest
    /\ UNCHANGED call

\* the checkpoint taken before the two appends (mark, then write)
MarkAndSaveBeforeAppend ==
    /\ pc = "drained"
    /\ mem' = MarkBatch(mem, dfBatch, Batch(todo, start))
    /\ stateFile' = Save(mem')
    /\ ckpt' = stateFile'
    /\ pc' = "rowsAppended"
    /\ indexFile' = append_dataframe(dfBatch, indexFile)
    /\ processed_total' = processed_total + Len(dfBatch)
    /\ UNCHANGED <<catalog, errFile, todo, start, dfBatch, failedObjs, failures, runs,
                   changed, total_failed, hashed, consolidated, preIndex, lostBatch,
                   atStart, lastOk, prevOk, cause>>
    /\ UNCHANGED scan
    /\ UNCHANGED rest
    /\ UNCHANGED call

\* lines 104-111: mark the batch's rows, state.save, next batch or the final pass
MarkAndSave ==
    /\ pc = "errsAppended"
    /\ mem' = MarkBatch(mem, dfBatch, Batch(todo, start))
    /\ stateFile' = Save(mem')
    /\ ckpt' = stateFile'
    /\ start' = BatchEnd(start, Len(todo))
    /\ pc' = IF start' < Len(todo) THEN "batch" ELSE "consolidate"
    /\ dfBatch' = <<>>
    /\ failedObjs' = {}
    /\ failures' = <<>>
    /\ UNCHANGED <<catalog, indexFile, errFile, todo, runs, changed, total_failed,
                   processed_total, hashed, consolidated, preIndex, lostBatch,
                   atStart, lastOk, prevOk, cause>>
    /\ UNCHANGED scan
    /\ UNCHANGED rest
    /\ UNCHANGED call

\* line 110: the process is killed, or the write raises, inside state.save,
\* after the file was opened for writing and before it was closed
SaveInterrupted ==
    /\ pc = "errsAppended"
    /\ stateFile' = TornSave(MarkBatch(mem, dfBatch, Batch(todo, start)))
    /\ \E p \in {"killed", "aborted"} : EndRun(p, IF p = "aborted" THEN "save" ELSE "")
    /\ lastOk' = FALSE
    /\ lostBatch' = {}
    /\ UNCHANGED <<catalog, indexFile, errFile, runs, changed, ckpt, total_failed,
                   processed_total, hashed, consolidated, preIndex, atStart, prevOk>>
    /\ UNCHANGED scan
    /\ UNCHANGED rest
    /\ UNCHANGED call

\* a final pass that rewrites the index whether or not rows were dropped
ConsolidateAlwaysRewrites ==
    /\ pc = "consolidate"
    /\ preIndex' = indexFile
    /\ \E df_all \in Dedup(indexFile) : indexFile' = write_dataframe(df_all, indexFile)
    /\ consolidated' = TRUE
    /\ EndRun("done", "")
    /\ lastOk' = (total_failed = 0)
    /\ UNCHANGED <<catalog, stateFile, errFile, runs, changed, ckpt, total_failed,
                   processed_total, hashed, lostBatch, atStart, prevOk>>
    /\ UNCHANGED scan
    /\ UNCHANGED rest
    /\ UNCHANGED call

\* lines 113-123: the final pass reads the index, deduplicates it and rewrites
\* it when rows were dropped
Consolidate ==
    /\ pc = "consolidate"
    /\ preIndex' = indexFile
    /\ \E df_all \in Dedup(indexFile) :
          indexFile' = IF Len(df_all) # Len(indexFile)
                       THEN write_dataframe(df_all, indexFile)
                       ELSE indexFile
    /\ consolidated' = TRUE
    /\ EndRun("done", "")
    /\ lastOk' = (total_failed = 0)
    /\ UNCHANGED <<catalog, stateFile, errFile, runs, changed, ckpt, total_failed,
                   processed_total, hashed, lostBatch, atStart, prevOk>>
    /\ UNCHANGED scan
    /\ UNCHANGED rest
    /\ UNCHANGED call

\* lines 115, 124-125: pd.read_csv raises; the pass is skipped with a warning
ConsolidateReadFails ==
    /\ pc = "consolidate"
    /\ EndRun("done", "")
    /\ lastOk' = (total_failed = 0)
    /\ UNCHANGED <<catalog, stateFile, indexFile, errFile, runs, changed, ckpt,
                   total_failed, processed_total, hashed, consolidated, preIndex,
                   lostBatch, atStart, prevOk>>
    /\ UNCHANGED scan
    /\ UNCHANGED rest
    /\ UNCHANGED call

\* line 120: the rewrite is cut short after to_csv truncated the file and wrote
\* n rows: by a write error, which lines 124-125 turn into a warning, or by a kill
ConsolidateWriteInterrupted ==
    /\ pc = "consolidate"
    /\ preIndex' = indexFile
    /\ \E df_all \in Dedup(indexFile) :
          /\ Len(df_all) # Len(indexFile)
          /\ \E n \in 0..(Len(df_all) - 1) :
                indexFile' = write_dataframe(Prefix(df_all, n), indexFile)
    /\ \E p \in {"killed", "done"} : EndRun(p, "")
    /\ lastOk' = FALSE
    /\ lostBatch' = {}
    /\ UNCHANGED <<catalog, stateFile, errFile, runs, changed, ckpt, total_failed,
                   processed_total, hashed, consolidated, atStart, prevOk>>
    /\ UNCHANGED scan
    /\ UNCHANGED rest
    /\ UNCHANGED call

\* the process is killed between two steps
Kill ==
    /\ Running
    /\ lostBatch' = IF pc \in {"rowsAppended", "errsAppended"} THEN Ids(dfBatch) ELSE {}
    /\ EndRun("killed", "")
    /\ lastOk' = FALSE
    /\ UNCHANGED <<catalog, stateFile, indexFile, errFile, runs, changed, ckpt,
                   total_failed, processed_total, hashed, consolidated, preIndex,
                   atStart, prevOk>>
    /\ UNCHANGED scan
    /\ UNCHANGED rest
    /\ UNCHANGED call

\* the process is killed inside to_csv(mode="a"), n of the rows written
KillDuringAppend ==
    /\ pc = "drained"
    /\ dfBatch # <<>>
    /\ \E n \in 0..(Len(dfBatch) - 1) :
          indexFile' = append_dataframe(Prefix(dfBatch, n), indexFile)
    /\ EndRun("killed", "")
    /\ lastOk' = FALSE
    /\ lostBatch' = {}
    /\ UNCHANGED <<catalog, stateFile, errFile, runs, changed, ckpt, total_failed,
                   processed_total, hashed, consolidated, preIndex, atStart, prevOk>>
    /\ UNCHANGED scan
    /\ UNCHANGED rest
    /\ UNCHANGED call

Next ==
    \/ CatalogChange
    \/ LoadState
    \/ ListAndFilter
    \/ ListingFails
    \/ BuildDataframe
    \/ DrainFailures
    \/ AppendRows
    \/ AppendRowsFails
    \/ AppendFailures
    \/ AppendFailuresFails
    \/ MarkAndSave
    \/ SaveInterrupted
    \/ Consolidate
    \/ ConsolidateReadFails
    \/ ConsolidateWriteInterrupted
    \/ Kill
    \/ KillDuringAppend

Spec == Init /\ [][Next]_vars

\* ------------------------------------------------- properties of the driver
LastN(s, n) == SubSeq(s, Len(s) - n + 1, Len(s))

\* the last row written for identifier k
LastRow(rows, k) ==
    rows[CHOOSE i \in 1..Len(rows) :
            /\ rows[i].id = k
            /\ \A j \in (i + 1)..Len(rows) : rows[j].id # k]

\* C1: in every reachable state, kills and restarts included, every identifier
\* present in the persisted state snapshot has a row in the index file.
C1_MarkedHasRow ==
    \A k \in Keys : stateFile.seen[k] # NoEntry => k \in Ids(indexFile)

\* C2: the state file changes only in a step taken after the batch's rows
\* were appended to the index and its failures to the sidecar; and when one of
\* the two appends raises, the run aborts with the state file exactly as the
\* previous checkpoint left it.
C2_SaveAfterBothWrites ==
    [][ /\ stateFile' # stateFile =>
              /\ pc = "errsAppended"
              /\ Len(indexFile) >= Len(dfBatch)
              /\ LastN(indexFile, Len(dfBatch)) = dfBatch
              /\ Len(errFile) >= Len(failures)
              /\ LastN(errFile, Len(failures)) = failures
        /\ (pc' = "aborted" /\ cause' \in {"append_rows", "append_failures"}) =>
              /\ stateFile' = ckpt
              /\ ckpt' = ckpt ]_vars

\* C2 witness: an append raised in a later batch of a run and the state file
\* is the checkpoint of the batch before.
C2_Witness ==
    /\ pc = "aborted"
    /\ cause \in {"append_rows", "append_failures"}
    /\ stateFile.kind = "valid"
    /\ stateFile = ckpt
    /\ stateFile # atStart.state
    /\ Len(indexFile) > Len(atStart.index)

\* C3: at a checkpoint the identifiers newly marked are exactly those of the
\* batch's successful rows, each with the fingerprint the catalog listed,
\* whatever its value; the others keep their entry; the result is saved.
C3_MarksExactlySuccesses ==
    [][ (pc = "errsAppended" /\ pc' \in {"batch", "consolidate"}) =>
           /\ \A k \in Keys :
                 mem'[k] = IF k \in Ids(dfBatch) THEN catalog[k] ELSE mem[k]
           /\ stateFile' = Save(mem') ]_vars

\* C4: build_dataframe never raises because items failed, all of them included:
\* each success yields one row and each failure one failure entry.
C4_NeverRaises ==
    pc = "batch" =>
        \A r \in build_dataframe(Batch(todo, start)) :
            /\ ~r.raised
            /\ Len(r.df) + Cardinality(r.failed) = Len(Batch(todo, start))
            /\ Len(drain_failures(r.failed)) = Cardinality(r.failed)

\* C5: when a run was killed after a batch's rows were appended and before the
\* state was saved, and the restarted run completes its consolidation pass, the
\* consolidated index holds exactly one row for each identifier of that batch.
C5_NoLossNoDuplicate ==
    (pc = "done" /\ consolidated /\ lostBatch # {}) =>
        \A k \in lostBatch : Count(indexFile, k) = 1

\* C5 witness: the restarted run re-appended the batch and its consolidation
\* pass dropped the duplicates.
C5_Witness ==
    /\ pc = "done"
    /\ consolidated
    /\ lostBatch # {}
    /\ Len(indexFile) < Len(preIndex)
    /\ \E k \in lostBatch : Count(preIndex, k) = 2

\* C8: a run that follows a run which processed the unchanged catalog
\* successfully hashes nothing, appends nothing and leaves the index and the
\* state file as they were.
C8_SecondRunDoesNothing ==
    prevOk =>
        /\ hashed = 0
        /\ processed_total = 0
        /\ indexFile = atStart.index
        /\ stateFile = atStart.state

\* C9: after any sequence of runs, killed or not, that ends with a run
\* returning normally, the index holds at most one row per identifier.
C9_UniqueAfterReturn ==
    pc = "done" => \A k \in Keys : Count(indexFile, k) <= 1

\* C10: the consolidation pass keeps, for each identifier, exactly the row
\* that was written last, and loses no identifier.
C10_KeepsLastWritten ==
    (pc = "done" /\ consolidated) =>
        \A k \in Ids(preIndex) :
            /\ Count(indexFile, k) = 1
            /\ LastRow(indexFile, k) = LastRow(preIndex, k)

\* C13: when the process crashes, or the write raises, before
\* IncrementalState.save completes, the state file still holds the complete
\* snapshot it held before: it is never left cut short or empty.
C13_SaveAtomic ==
    [][ (Running /\ pc' \in {"killed", "aborted"}) =>
           /\ stateFile' = stateFile
           /\ stateFile'.kind # "torn" ]_vars

\* C14: at the checkpoint of a batch of n items of which k failed (0 < k < n),
\* the n-k successful rows are the tail of the index, the k failure records
\* are the tail of the sidecar, the saved state marks the n-k successful
\* identifiers with their fingerprints and leaves the failed ones as they
\* were, and the run goes on to the next batch.
C14_PartialBatch ==
    [][ (pc = "errsAppended" /\ pc' \in {"batch", "consolidate"} /\ failedObjs # {}) =>
           LET batch == Batch(todo, start)
               n == Len(batch)
               k == Cardinality(failedObjs)
           IN  /\ 0 < k
               /\ k < n
               /\ Len(dfBatch) = n - k
               /\ Ids(dfBatch) = {o.key : o \in Range(batch) \ failedObjs}
               /\ Len(indexFile) >= n - k
               /\ LastN(indexFile, n - k) = dfBatch
               /\ indexFile' = indexFile
               /\ Len(failures) = k
               /\ Len(errFile) >= k
               /\ LastN(errFile, k) = failures
               /\ stateFile'.kind = "valid"
               /\ \A o \in Range(batch) \ failedObjs : stateFile'.seen[o.key] = o.etag
               /\ \A o \in failedObjs : stateFile'.seen[o.key] = mem[o.key]
               /\ start' = BatchEnd(start, Len(todo)) ]_vars

\* C15: an interrupt that arrives while a batch is being processed leaves the
\* batch not checkpointed at all: the state file and the index are as the
\* interrupt found them and no row of the batch had been appended.
\* (An interrupt after the save finds the batch fully checkpointed.)
C15_BatchAtomicUnderInterrupt ==
    [][ (pc \in {"batch", "built", "drained", "rowsAppended", "errsAppended"}
            /\ pc' = "killed") =>
           /\ stateFile' = stateFile
           /\ indexFile' = indexFile
           /\ (pc \in {"rowsAppended", "errsAppended"} => dfBatch = <<>>) ]_vars

\* C16: when the listing raises or is interrupted the run ends there, with
\* that error: nothing was hashed, no row and no failure record was appended
\* and the state file is as the run found it.
C16_ListingFailureTouchesNothing ==
    [][ ( \/ (pc = "loaded" /\ pc' \in {"aborted", "killed"})
          \/ (pc' = "aborted" /\ cause' = "listing") ) =>
           /\ (pc' = "aborted" => cause' = "listing")
           /\ hashed' = 0
           /\ processed_total' = 0
           /\ total_failed' = 0
           /\ indexFile' = atStart'.index
           /\ errFile' = atStart'.err
           /\ stateFile' = atStart'.state ]_vars

\* C16 witness: a run over a catalog with objects to process, on top of an
\* index and a state left by earlier runs, ended with the listing error.
C16_Witness ==
    /\ pc = "aborted"
    /\ cause = "listing"
    /\ indexFile # <<>>
    /\ stateFile.kind = "valid"
    /\ Todo(ListObjects(catalog), Load(stateFile)) # <<>>

\* C21: the consolidation pass leaves an index without duplicate identifiers
\* exactly as it is, without rewriting it; and a second pass over what a first
\* pass produced drops nothing, so it leaves that index as it is.
C21_ConsolidationIdempotent ==
    [][ pc = "consolidate" =>
           /\ (\A k \in Keys : Count(indexFile, k) <= 1) => indexFile' = indexFile
           /\ \A once \in Dedup(indexFile) :
                 \A twice \in Dedup(once) : Len(twice) = Len(once) ]_vars

\* C21 witness: the pass ran over an index of several rows, not in
\* image_name order and without duplicates, and the index is as it was.
C21_Witness ==
    /\ pc = "done"
    /\ consolidated
    /\ indexFile = preIndex
    /\ \E i \in 1..(Len(indexFile) - 1) :
          KeyRank[indexFile[i].id] > KeyRank[indexFile[i + 1].id]

\* C27: the batches are the consecutive slices of the to-do list, in list
\* order: the first starts at the first item, each next one where the one
\* before ended, each holds batch_size items except possibly the last, the
\* items hashed for a batch are exactly the items of its slice, and the loop
\* ends with the batch that holds the last item.
C27_ConsecutiveBatches ==
    [][ /\ (pc = "loaded" /\ pc' = "batch") => (start' = 0 /\ todo' # <<>>)
        /\ (pc = "batch" /\ pc' = "built") =>
              /\ start < Len(todo)
              /\ Ids(dfBatch') \cup {o.key : o \in failedObjs'} =
                    {todo[i].key : i \in (start + 1)..Min(start + batch_size, Len(todo))}
              /\ Len(dfBatch') + Cardinality(failedObjs') =
                    Min(batch_size, Len(todo) - start)
        /\ (pc = "errsAppended" /\ pc' \in {"batch", "consolidate"}) =>
              /\ todo' = todo
              /\ start' = Min(start + batch_size, Len(todo))
              /\ (pc' = "batch") = (start' < Len(todo))
              /\ (pc' = "batch" => start' = start + batch_size) ]_vars

\* C27 witness: the loop ended after a full batch and a last, shorter one.
C27_Witness ==
    /\ pc = "consolidate"
    /\ Len(todo) = batch_size + 1
    /\ start = Len(todo)

\* ------------------------------------------------- the worker pool of a batch
\* build_dataframe at the grain of its tasks: pool.submit for every object of
\* the batch, each task ends by returning a record or raising, the driver
\* thread takes the finished futures from as_completed, and the with block is
\* left when every task has ended
ObjOf(batch, key) == CHOOSE o \in Range(batch) : o.key = key

\* line 44: futures = {pool.submit(self._process_one, obj): obj for obj in objects}
PoolSubmit ==
    /\ pc = "batch"
    /\ pc' = "pool"
    /\ workers' = [k \in Keys |->
                      IF \E o \in Range(Batch(todo, start)) : o.key = k
                      THEN "running" ELSE "idle"]
    /\ hashed' = hashed + Len(Batch(todo, start))
    /\ UNCHANGED <<catalog, stateFile, indexFile, errFile, mem, todo, start, dfBatch,
                   failedObjs, failures, runs, changed, ckpt, total_failed,
                   processed_total, consolidated, preIndex, lostBatch, atStart,
                   lastOk, prevOk, cause>>
    /\ UNCHANGED scan
    /\ UNCHANGED call
    /\ UNCHANGED lnk

\* lines 36-39: a task ends: _process_one returns its HashRecord or raises; it
\* assigns nothing but its own locals
WorkerReturns ==
    /\ pc = "pool"
    /\ \E k \in Keys : \E r \in {"returned", "raised"} :
          /\ workers[k] = "running"
          /\ workers' = [workers EXCEPT ![k] = r]
    /\ UNCHANGED drv
    /\ UNCHANGED scan
    /\ UNCHANGED call
    /\ UNCHANGED lnk

\* a driver thread that marks the state as soon as it takes a result
CollectAndMark ==
    /\ pc = "pool"
    /\ \E k \in Keys :
          /\ workers[k] \in {"returned", "raised"}
          /\ workers' = [workers EXCEPT ![k] = "collected"]
          /\ IF workers[k] = "returned"
             THEN /\ dfBatch' = Append(dfBatch, to_row(ObjOf(Batch(todo, start), k)))
                  /\ mem' = mark_processed(mem, k, ObjOf(Batch(todo, start), k).etag)
                  /\ UNCHANGED failedObjs
             ELSE /\ failedObjs' = failedObjs \cup {ObjOf(Batch(todo, start), k)}
                  /\ UNCHANGED <<dfBatch, mem>>
    /\ UNCHANGED <<catalog, stateFile, indexFile, errFile, pc, todo, start,
                   failures, runs, changed, ckpt, total_failed, processed_total,
                   hashed, consolidated, preIndex, lostBatch, atStart, lastOk,
                   prevOk, cause>>
    /\ UNCHANGED scan
    /\ UNCHANGED call
    /\ UNCHANGED lnk

\* lines 45-51: the driver thread takes a finished future: records.append(rec),
\* or the warning for a task that raised
Collect ==
    /\ pc = "pool"
    /\ \E k \in Keys :
          /\ workers[k] \in {"returned", "raised"}
          /\ workers' = [workers EXCEPT ![k] = "collected"]
          /\ IF workers[k] = "returned"
             THEN /\ dfBatch' = Append(dfBatch, to_row(ObjOf(Batch(todo, start), k)))
                  /\ UNCHANGED failedObjs
             ELSE /\ failedObjs' = failedObjs \cup {ObjOf(Batch(todo, start), k)}
                  /\ UNCHANGED dfBatch
    /\ UNCHANGED <<catalog, stateFile, indexFile, errFile, pc, mem, todo, start,
                   failures, runs, changed, ckpt, total_failed, processed_total,
                   hashed, consolidated, preIndex, lostBatch, atStart, lastOk,
                   prevOk, cause>>
    /\ UNCHANGED scan
    /\ UNCHANGED call
    /\ UNCHANGED lnk

\* lines 43, 52-57: the with block is left when every task has ended and was
\* taken; the frame is built, KeyError when there is no record
PoolExit ==
    /\ pc = "pool"
    /\ \A k \in Keys : workers[k] \in {"idle", "collected"}
    /\ IF dfBatch = <<>>
       THEN /\ EndRun("aborted", "build_dataframe")
            /\ lastOk' = FALSE
       ELSE /\ pc' = "built"
            /\ UNCHANGED <<mem, todo, start, dfBatch, failedObjs, failures, lastOk, cause>>
    /\ UNCHANGED <<catalog, stateFile, indexFile, errFile, runs, changed, ckpt,
                   total_failed, processed_total, hashed, consolidated, preIndex,
                   lostBatch, atStart, prevOk>>
    /\ UNCHANGED scan
    /\ UNCHANGED call
    /\ UNCHANGED rest

NextPool ==
    \/ LoadState
    \/ ListAndFilter
    \/ PoolSubmit
    \/ WorkerReturns
    \/ Collect
    \/ PoolExit
    \/ DrainFailures
    \/ AppendRows
    \/ AppendFailures
    \/ MarkAndSave
    \/ Consolidate

SpecPool == Init /\ [][NextPool]_vars

\* C22: the in-memory state, the state file and the index file change only in
\* steps of the driver thread taken while no task of the batch is running;
\* the step in which a task ends changes nothing but the task's own future.
C22_SingleWriter ==
    [][ /\ (mem' # mem \/ stateFile' # stateFile \/ indexFile' # indexFile) =>
              \A k \in Keys : workers[k] # "running"
        /\ (\E k \in Keys : workers[k] = "running" /\ workers'[k] # "running") =>
              UNCHANGED <<mem, stateFile, indexFile, errFile, dfBatch, failedObjs>> ]_vars

\* C22 witness: a later batch's tasks are running on top of the checkpoint
\* that was written after the tasks of the batch before had all ended.
C22_Witness ==
    /\ pc = "pool"
    /\ start > 0
    /\ \E k \in Keys : workers[k] = "running"
    /\ stateFile.kind = "valid"
    /\ stateFile.seen = mem
    /\ indexFile # <<>>

\* ------------------------------------------------- IncrementalState on its own
\* the documents a state file can hold: none, a snapshot written by save, a
\* document that is not well-formed JSON, a well-formed one without "seen"
SeenMaps == [Keys -> Etags \cup {NoEntry}]

StateFiles ==
    {AbsentFile, [kind |-> "nofield", seen |-> EmptySeen]}
        \cup {[kind |-> k, seen |-> s] : k \in {"valid", "torn"}, s \in SeenMaps}

InitState ==
    /\ stateFile \in StateFiles
    /\ mem = EmptySeen
    /\ call = NoCall
    /\ workers = NoWorkers
    /\ linkStateFile = AbsentLinkFile
    /\ linkOut = AbsentOut
    /\ linkPc = "idle"
    /\ linkMem = NoLinks
    /\ records = {}
    /\ catalog = [k \in Keys |-> NoObj]
    /\ indexFile = <<>>
    /\ errFile = <<>>
    /\ pc = "idle"
    /\ todo = <<>>
    /\ start = 0
    /\ dfBatch = <<>>
    /\ failedObjs = {}
    /\ failures = <<>>
    /\ runs = 0
    /\ changed = FALSE
    /\ ckpt = AbsentFile
    /\ total_failed = 0
    /\ processed_total = 0
    /\ hashed = 0
    /\ consolidated = FALSE
    /\ preIndex = <<>>
    /\ lostBatch = {}
    /\ atStart = [index |-> <<>>, state |-> AbsentFile, err |-> <<>>]
    /\ lastOk = FALSE
    /\ prevOk = FALSE
    /\ cause = ""
    /\ scanDf = <<>>
    /\ distance_threshold = 0
    /\ num_bands = 1
    /\ matches = {}
    /\ scanPc = "idle"
    /\ out = <<>>

\* state = IncrementalState.load(path)
StateLoad ==
    /\ call.op = "none"
    /\ call' = [op |-> "load", raised |-> LoadRaises(stateFile)]
    /\ mem' = IF LoadRaises(stateFile) THEN mem ELSE Load(stateFile)
    /\ UNCHANGED <<catalog, stateFile, indexFile, errFile, pc, todo, start, dfBatch,
                   failedObjs, failures, runs, changed, ckpt, total_failed,
                   processed_total, hashed, consolidated, preIndex, lostBatch,
                   atStart, lastOk, prevOk, cause>>
    /\ UNCHANGED scan
    /\ UNCHANGED rest

\* state.needs_processing(key, etag)
StateNeedsProcessing ==
    /\ call.op # "none"
    /\ ~(call.op = "load" /\ call.raised)
    /\ \E key \in Keys : \E etag \in Etags :
          call' = [op |-> "needs_processing", key |-> key, etag |-> etag,
                   result |-> needs_processing(mem, key, etag)]
    /\ UNCHANGED drv
    /\ UNCHANGED scan
    /\ UNCHANGED rest

\* state.mark_processed(key, etag)
StateMarkProcessed ==
    /\ call.op # "none"
    /\ ~(call.op = "load" /\ call.raised)
    /\ \E key \in Keys : \E etag \in Etags :
          /\ mem' = mark_processed(mem, key, etag)
          /\ call' = [op |-> "mark_processed", key |-> key, etag |-> etag,
                      prior |-> mem[key]]
    /\ UNCHANGED <<catalog, stateFile, indexFile, errFile, pc, todo, start, dfBatch,
                   failedObjs, failures, runs, changed, ckpt, total_failed,
                   processed_total, hashed, consolidated, preIndex, lostBatch,
                   atStart, lastOk, prevOk, cause>>
    /\ UNCHANGED scan
    /\ UNCHANGED rest

NextState ==
    \/ StateLoad
    \/ StateNeedsProcessing
    \/ StateMarkProcessed

SpecState == InitState /\ [][NextState]_vars

\* C11: needs_processing(identifier, fingerprint) answers true exactly when the
\* state holds no entry for the identifier or holds another fingerprint, for
\* every state, identifier and fingerprint, and leaves the state as it was.
C11_NeedsProcessingIff ==
    [][ call'.op = "needs_processing" =>
           /\ call'.result = (mem[call'.key] = NoEntry \/ mem[call'.key] # call'.etag)
           /\ mem' = mem
           /\ stateFile' = stateFile ]_vars

\* C11 witness: the state held another fingerprint and the answer was true.
C11_Witness ==
    /\ call.op = "needs_processing"
    /\ call.result
    /\ mem[call.key] \notin {NoEntry, call.etag}

\* C12: right after mark_processed(k, f), whatever entry k had, the state says
\* k needs no processing with f and needs processing with every other
\* fingerprint.
C12_MarkThenNeeds ==
    [][ call'.op = "mark_processed" =>
           /\ ~needs_processing(mem', call'.key, call'.etag)
           /\ \A g \in Etags \ {call'.etag} : needs_processing(mem', call'.key, g) ]_vars

\* C12 witness: the mark overwrote an entry that held another fingerprint.
C12_Witness ==
    /\ call.op = "mark_processed"
    /\ call.prior \notin {NoEntry, call.etag}
    /\ mem[call.key] = call.etag

\* C17: a state file that exists and cannot be parsed into an
\* identifier-to-fingerprint mapping (not well-formed, or without the expected
\* field) makes load fail.
C17_CorruptStateRefused ==
    (call.op = "load" /\ stateFile.kind \in {"torn", "nofield"}) => call.raised

\* ------------------------------------------------- tools/duplicate_scanner.py
\* the width of a hash in bits (total_bits), scaled down from 64: one hex digit
HashBits == 4

HexDigits == <<"0", "1", "2", "3", "4", "5", "6", "7",
               "8", "9", "a", "b", "c", "d", "e", "f">>

\* a missing cell: NaN in the frame, "" after fillna("")
Missing == ""

\* the cells of the frames scanned: a missing hash, the zero hash and hashes at
\* distance 1 and 2 from one another, with and without a band in common
Cells == {Missing, "0", "1", "3", "4", "5", "c", "f"}

\* the hash columns of the frame in column order (build_dataframe sorts them)
hash_cols == <<"h_flip_hash", "original_hash">>

RowNames == {"A", "B", "C"}

\* the order of image_name values: the order of strings
NameRank == [n \in RowNames |-> CASE n = "A" -> 1 [] n = "B" -> 2 [] n = "C" -> 3]

\* _hash_to_bits: int(hash_hex, 16), 0 when int() raises
_hash_to_bits(hash_hex) ==
    IF \E i \in 1..Len(HexDigits) : HexDigits[i] = hash_hex
    THEN (CHOOSE i \in 1..Len(HexDigits) : HexDigits[i] = hash_hex) - 1
    ELSE 0

RECURSIVE Pow2(_)
Pow2(n) == IF n = 0 THEN 1 ELSE 2 * Pow2(n - 1)

RECURSIVE Xor(_, _)
Xor(a, b) ==
    IF a = 0 /\ b = 0 THEN 0
    ELSE (((a % 2) + (b % 2)) % 2) + 2 * Xor(a \div 2, b \div 2)

RECURSIVE bit_count(_)
bit_count(x) == IF x = 0 THEN 0 ELSE (x % 2) + bit_count(x \div 2)

\* _hamming_distance_int: (a ^ b).bit_count()
_hamming_distance_int(a, b) == bit_count(Xor(a, b))

\* _band_slices: the (start, length) of each band, the last takes the remainder
RECURSIVE BandSlicesFrom(_, _, _, _)
BandSlicesFrom(i, st, total_bits, nb) ==
    IF i >= nb THEN <<>>
    ELSE LET band_size == total_bits \div nb
             length == IF i < nb - 1 THEN band_size ELSE total_bits - st
         IN  <<[start |-> st, length |-> length]>>
             \o BandSlicesFrom(i + 1, st + length, total_bits, nb)

\* bands that all have the length total_bits // num_bands
_band_slices_equal(total_bits, nb) ==
    [i \in 1..nb |-> [start |-> (i - 1) * (total_bits \div nb),
                      length |-> total_bits \div nb]]

_band_slices(total_bits, nb) == BandSlicesFrom(0, 0, total_bits, nb)

\* _band_keys: (hash_int >> shift) & band_mask for each band
_band_keys(hash_int, total_bits, nb) ==
    LET sl == _band_slices(total_bits, nb)
    IN  [i \in 1..Len(sl) |->
            LET shift == total_bits - (sl[i].start + sl[i].length)
            IN  (hash_int \div Pow2(shift)) % Pow2(sl[i].length)]

\* col_to_ints[col][idx] (lines 92-94)
col_to_ints(frame, col, idx) == _hash_to_bits(frame[idx][col])

\* band_buckets (lines 89-100): the rows in the bucket (col, band_idx, band_key);
\* rows whose hash is 0 are in no bucket
band_bucket(frame, nb, col, band_idx, band_key) ==
    {idx \in 1..Len(frame) :
        /\ col_to_ints(frame, col, idx) # 0
        /\ _band_keys(col_to_ints(frame, col, idx), HashBits, nb)[band_idx] = band_key}

BandKeysOf(frame, nb, band_idx) ==
    {_band_keys(col_to_ints(frame, hash_cols[c], idx), HashBits, nb)[band_idx] :
        c \in 1..Len(hash_cols), idx \in 1..Len(frame)}

\* lines 102-111: pairs of rows that share a bucket of one column
same_column_pairs(frame, nb) ==
    {<<a, b, hash_cols[c], hash_cols[c]>> :
        <<a, b, c>> \in {t \in (1..Len(frame)) \X (1..Len(frame)) \X (1..Len(hash_cols)) :
            /\ t[1] < t[2]
            /\ \E band_idx \in 1..nb : \E key \in BandKeysOf(frame, nb, band_idx) :
                  {t[1], t[2]} \subseteq band_bucket(frame, nb, hash_cols[t[3]], band_idx, key)}}

\* lines 113-128: rows of two different columns that share (band_idx, key);
\* ci is the earlier column, cj the later one, and the pair is stored as
\* (min(a, b), max(a, b), ci, cj)
cross_column_pairs(frame, nb) ==
    {<<Min(t[1], t[2]), IF t[1] < t[2] THEN t[2] ELSE t[1], hash_cols[t[3]], hash_cols[t[4]]>> :
        t \in {u \in (1..Len(frame)) \X (1..Len(frame)) \X (1..Len(hash_cols)) \X (1..Len(hash_cols)) :
            /\ u[3] < u[4]
            /\ u[1] # u[2]
            /\ \E band_idx \in 1..nb : \E key \in BandKeysOf(frame, nb, band_idx) :
                  /\ u[1] \in band_bucket(frame, nb, hash_cols[u[3]], band_idx, key)
                  /\ u[2] \in band_bucket(frame, nb, hash_cols[u[4]], band_idx, key)}}

candidate_pairs(frame, nb) == same_column_pairs(frame, nb) \cup cross_column_pairs(frame, nb)

\* a verification that lets one more bit through
verified_off_by_one(frame, thr, cand) ==
    /\ col_to_ints(frame, cand[3], cand[1]) # 0
    /\ col_to_ints(frame, cand[4], cand[2]) # 0
    /\ _hamming_distance_int(col_to_ints(frame, cand[3], cand[1]),
                             col_to_ints(frame, cand[4], cand[2])) <= thr + 1

\* lines 132-152: the DuplicateMatch of a verified candidate; similarity is
\* 1 - dist / total_bits, kept as the fraction num / den
verified(frame, thr, cand) ==
    LET hv_i == col_to_ints(frame, cand[3], cand[1])
        hv_j == col_to_ints(frame, cand[4], cand[2])
    IN  /\ hv_i # 0
        /\ hv_j # 0
        /\ _hamming_distance_int(hv_i, hv_j) <= thr

DuplicateMatch(frame, cand) ==
    LET dist == _hamming_distance_int(col_to_ints(frame, cand[3], cand[1]),
                                      col_to_ints(frame, cand[4], cand[2]))
    IN  [image_a |-> frame[cand[1]].image_name,
         image_b |-> frame[cand[2]].image_name,
         hash_key_a |-> cand[3],
         hash_key_b |-> cand[4],
         distance |-> dist,
         similarity |-> [num |-> HashBits - dist, den |-> HashBits]]

\* find_duplicates: no match when the first hash column holds no value at all
\* (lines 80-82), else the verified candidates
find_duplicates(frame, thr, nb) ==
    IF \A idx \in 1..Len(frame) : frame[idx][hash_cols[1]] = Missing
    THEN {}
    ELSE {DuplicateMatch(frame, cand) :
            cand \in {c \in candidate_pairs(frame, nb) : verified(frame, thr, c)}}

\* a sort key that puts the names before the distance
sort_key_leq_names_first(m, n) ==
    \/ NameRank[m.image_a] < NameRank[n.image_a]
    \/ /\ m.image_a = n.image_a
       /\ \/ NameRank[m.image_b] < NameRank[n.image_b]
          \/ /\ m.image_b = n.image_b
             /\ m.distance <= n.distance

\* the order of sort_values(["distance", "image_a", "image_b"])
sort_key_leq(m, n) ==
    \/ m.distance < n.distance
    \/ /\ m.distance = n.distance
       /\ \/ NameRank[m.image_a] < NameRank[n.image_a]
          \/ /\ m.image_a = n.image_a
             /\ NameRank[m.image_b] <= NameRank[n.image_b]

\* lines 130-157: the matches are appended in the iteration order of the set
\* candidate_pairs, which the hashes of its tuples decide (str hashes differ
\* from one process to the next), and then sorted on the three key columns
\* by a stable sort: the outcomes are the lists in key order, matches with
\* equal keys in any order
RECURSIVE sort_values(_)
sort_values(ms) ==
    IF ms = {} THEN {<<>>}
    ELSE UNION {{<<m>> \o t : t \in sort_values(ms \ {m})} :
                    m \in {x \in ms : \A y \in ms : sort_key_leq(x, y)}}

\* the cells of the frames of three rows: a missing hash and two hashes at
\* distance 1 from one another
Cells3 == {Missing, "1", "3"}

\* the frames scanned: two rows over all the cells, in both orders, and three
\* rows in every order, the third of which has no mirrored hash
Frames ==
    {f \in [1..2 -> [image_name : {"A", "B"}, h_flip_hash : Cells, original_hash : Cells]] :
        f[1].image_name # f[2].image_name}
    \cup
    {f \in [1..3 -> [image_name : RowNames, h_flip_hash : Cells3, original_hash : Cells3]] :
        /\ \A i, j \in 1..3 : i # j => f[i].image_name # f[j].image_name
        /\ f[3].h_flip_hash = Missing}

InitScan ==
    /\ scanDf \in Frames
    /\ distance_threshold \in 0..MaxThreshold
    /\ num_bands \in 1..MaxBands
    /\ matches = {}
    /\ scanPc = "ready"
    /\ catalog = [k \in Keys |-> NoObj]
    /\ stateFile = AbsentFile
    /\ indexFile = <<>>
    /\ errFile = <<>>
    /\ pc = "idle"
    /\ mem = EmptySeen
    /\ todo = <<>>
    /\ start = 0
    /\ dfBatch = <<>>
    /\ failedObjs = {}
    /\ failures = <<>>
    /\ runs = 0
    /\ changed = FALSE
    /\ ckpt = AbsentFile
    /\ total_failed = 0
    /\ processed_total = 0
    /\ hashed = 0
    /\ consolidated = FALSE
    /\ preIndex = <<>>
    /\ lostBatch = {}
    /\ atStart = [index |-> <<>>, state |-> AbsentFile, err |-> <<>>]
    /\ lastOk = FALSE
    /\ prevOk = FALSE
    /\ cause = ""
    /\ out = <<>>
    /\ call = NoCall
    /\ workers = NoWorkers
    /\ linkStateFile = AbsentLinkFile
    /\ linkOut = AbsentOut
    /\ linkPc = "idle"
    /\ linkMem = NoLinks
    /\ records = {}

FindDuplicates ==
    /\ scanPc = "ready"
    /\ matches' = find_duplicates(scanDf, distance_threshold, num_bands)
    /\ out' \in sort_values(matches')
    /\ scanPc' = "done"
    /\ UNCHANGED <<scanDf, distance_threshold, num_bands>>
    /\ UNCHANGED drv
    /\ UNCHANGED call
    /\ UNCHANGED rest

\* a later invocation, in another process, on the same index with the same
\* parameters
FindDuplicatesAgain ==
    /\ scanPc = "done"
    /\ matches' = find_duplicates(scanDf, distance_threshold, num_bands)
    /\ out' \in sort_values(matches')
    /\ scanPc' = "done"
    /\ UNCHANGED <<scanDf, distance_threshold, num_bands>>
    /\ UNCHANGED drv
    /\ UNCHANGED call
    /\ UNCHANGED rest

NextScan ==
    \/ FindDuplicates
    \/ FindDuplicatesAgain

SpecScan == InitScan /\ [][NextScan]_vars

\* ------------------------------------------------- properties of the scanner
\* Hamming distance: the number of bit positions in which two hashes differ
DifferingBits(x, y) ==
    Cardinality({i \in 0..(HashBits - 1) :
                    (x \div Pow2(i)) % 2 # (y \div Pow2(i)) % 2})

SharesBand(x, y, nb) ==
    \E i \in 1..nb : _band_keys(x, HashBits, nb)[i] = _band_keys(y, HashBits, nb)[i]

RowNamed(frame, name) == frame[CHOOSE i \in 1..Len(frame) : frame[i].image_name = name]

\* the hash pairs {(r1, c1), (r2, c2)} of two distinct rows, both nonzero,
\* within the threshold
PairsWithin(frame, thr) ==
    {{<<t[1], t[2]>>, <<t[3], t[4]>>} :
        t \in {u \in (1..Len(frame)) \X Range(hash_cols) \X (1..Len(frame)) \X Range(hash_cols) :
            /\ u[1] # u[3]
            /\ _hash_to_bits(frame[u[1]][u[2]]) # 0
            /\ _hash_to_bits(frame[u[3]][u[4]]) # 0
            /\ DifferingBits(_hash_to_bits(frame[u[1]][u[2]]),
                             _hash_to_bits(frame[u[3]][u[4]])) <= thr}}

\* C6: two distinct rows r1, r2 and columns c1, c2 whose hashes are nonzero,
\* agree on a band and are within the threshold are reported with their
\* distance d and similarity 1 - d/B, c1 attributed to r1 and c2 to r2,
\* whichever row comes first in the index.
C6_CrossColumnMatch ==
    scanPc = "done" =>
        \A r1, r2 \in 1..Len(scanDf) : \A c1, c2 \in Range(hash_cols) :
            LET h1 == _hash_to_bits(scanDf[r1][c1])
                h2 == _hash_to_bits(scanDf[r2][c2])
                d  == DifferingBits(h1, h2)
            IN  (r1 # r2 /\ h1 # 0 /\ h2 # 0 /\ SharesBand(h1, h2, num_bands)
                    /\ d <= distance_threshold) =>
                \E m \in matches :
                    /\ m.distance = d
                    /\ m.similarity = [num |-> HashBits - d, den |-> HashBits]
                    /\ \/ /\ m.image_a = scanDf[r1].image_name /\ m.hash_key_a = c1
                          /\ m.image_b = scanDf[r2].image_name /\ m.hash_key_b = c2
                       \/ /\ m.image_a = scanDf[r2].image_name /\ m.hash_key_a = c2
                          /\ m.image_b = scanDf[r1].image_name /\ m.hash_key_b = c1
                /\ (Cardinality(PairsWithin(scanDf, distance_threshold)) = 1
                       => Cardinality(matches) = 1)

\* C7: every reported match is within the threshold and its distance is the
\* number of bits in which the hash of row a in column hash_key_a differs from
\* the hash of row b in column hash_key_b.
C7_ExactDistance ==
    scanPc = "done" =>
        \A m \in matches :
            /\ m.distance <= distance_threshold
            /\ m.distance =
                  DifferingBits(_hash_to_bits(RowNamed(scanDf, m.image_a)[m.hash_key_a]),
                                _hash_to_bits(RowNamed(scanDf, m.image_b)[m.hash_key_b]))

\* C7 witness: a match across two columns at a distance above 0 was reported.
C7_Witness ==
    /\ scanPc = "done"
    /\ \E m \in matches :
          /\ m.distance > 0
          /\ m.distance = distance_threshold
          /\ m.hash_key_a # m.hash_key_b

\* C18: in every match reported, image_a comes before image_b in the order
\* of identifiers, whatever the order of the rows in the index.
C18_OrderedPair ==
    scanPc = "done" =>
        \A m \in matches : NameRank[m.image_a] < NameRank[m.image_b]

\* C19: the list returned is in ascending order of (distance, image_a,
\* image_b): no match is followed by one that is smaller in that order.
C19_SortedOutput ==
    scanPc = "done" =>
        \A i \in 1..(Len(out) - 1) :
            \/ out[i].distance < out[i + 1].distance
            \/ /\ out[i].distance = out[i + 1].distance
               /\ \/ NameRank[out[i].image_a] < NameRank[out[i + 1].image_a]
                  \/ /\ out[i].image_a = out[i + 1].image_a
                     /\ NameRank[out[i].image_b] <= NameRank[out[i + 1].image_b]

\* C19 witness: a list in which the distance, the first name and the second
\* name each decide the place of some match.
C19_Witness ==
    /\ scanPc = "done"
    /\ \E i, j, k \in 1..(Len(out) - 1) :
          /\ out[i].distance < out[i + 1].distance
          /\ NameRank[out[i].image_a] > NameRank[out[i + 1].image_a]
          /\ out[j].distance = out[j + 1].distance
          /\ NameRank[out[j].image_a] < NameRank[out[j + 1].image_a]
          /\ out[k].distance = out[k + 1].distance
          /\ out[k].image_a = out[k + 1].image_a
          /\ NameRank[out[k].image_b] < NameRank[out[k + 1].image_b]

\* C20: a second invocation on the same index with the same parameters
\* returns the same matches in the same order.
C20_Deterministic ==
    [][ (scanPc = "done" /\ scanPc' = "done") =>
           /\ matches' = matches
           /\ out' = out ]_vars

\* a cell that holds no usable hash: missing, unparseable or all-zero
NoHash(cell) == _hash_to_bits(cell) = 0

\* the pair of rows r1, r2 is reported through column c on both sides
ReportedThrough(ms, frame, r1, r2, c) ==
    \E m \in ms :
        /\ {m.image_a, m.image_b} = {frame[r1].image_name, frame[r2].image_name}
        /\ m.hash_key_a = c
        /\ m.hash_key_b = c

\* C23: for every num_bands >= 1, two distinct rows that hold the same hash in
\* a column, whatever its value, are together in a band bucket of that column
\* and are generated as a candidate pair.
C23_EqualHashesAreCandidates ==
    scanPc = "done" =>
        \A a, b \in 1..Len(scanDf) : \A c \in Range(hash_cols) :
            (a < b /\ scanDf[a][c] # Missing /\ scanDf[a][c] = scanDf[b][c]) =>
                /\ \E band_idx \in 1..num_bands :
                   \E key \in BandKeysOf(scanDf, num_bands, band_idx) :
                      {a, b} \subseteq band_bucket(scanDf, num_bands, c, band_idx, key)
                /\ <<a, b, c, c>> \in candidate_pairs(scanDf, num_bands)

\* C25: a row without a usable hash in a column is in no reported match
\* through that column, and it is still matched through another column in
\* which it holds a valid hash equal to that of another row.
C25_SkippedForThatColumnOnly ==
    scanPc = "done" =>
        /\ \A m \in matches :
              /\ ~NoHash(RowNamed(scanDf, m.image_a)[m.hash_key_a])
              /\ ~NoHash(RowNamed(scanDf, m.image_b)[m.hash_key_b])
        /\ \A r1, r2 \in 1..Len(scanDf) : \A c, c2 \in Range(hash_cols) :
              (r1 # r2 /\ c # c2 /\ NoHash(scanDf[r1][c])
                  /\ ~NoHash(scanDf[r1][c2]) /\ scanDf[r1][c2] = scanDf[r2][c2]) =>
                 ReportedThrough(matches, scanDf, r1, r2, c2)

\* C26: two distinct rows whose nonzero hashes in one column differ in d bits,
\* with d < num_bands and d <= distance_threshold, are reported through that
\* column.
C26_NearDuplicateFound ==
    scanPc = "done" =>
        \A r1, r2 \in 1..Len(scanDf) : \A c \in Range(hash_cols) :
            LET h1 == _hash_to_bits(scanDf[r1][c])
                h2 == _hash_to_bits(scanDf[r2][c])
            IN  (r1 # r2 /\ h1 # 0 /\ h2 # 0
                    /\ DifferingBits(h1, h2) < num_bands
                    /\ DifferingBits(h1, h2) <= distance_threshold) =>
                   ReportedThrough(matches, scanDf, r1, r2, c)

\* ------------------------------------------------- the banding on its own
InitBands ==
    /\ call = NoCall
    /\ catalog = [k \in Keys |-> NoObj]
    /\ stateFile = AbsentFile
    /\ indexFile = <<>>
    /\ errFile = <<>>
    /\ pc = "idle"
    /\ mem = EmptySeen
    /\ todo = <<>>
    /\ start = 0
    /\ dfBatch = <<>>
    /\ failedObjs = {}
    /\ failures = <<>>
    /\ runs = 0
    /\ changed = FALSE
    /\ ckpt = AbsentFile
    /\ total_failed = 0
    /\ processed_total = 0
    /\ hashed = 0
    /\ consolidated = FALSE
    /\ preIndex = <<>>
    /\ lostBatch = {}
    /\ atStart = [index |-> <<>>, state |-> AbsentFile, err |-> <<>>]
    /\ lastOk = FALSE
    /\ prevOk = FALSE
    /\ cause = ""
    /\ scanDf = <<>>
    /\ distance_threshold = 0
    /\ num_bands = 1
    /\ matches = {}
    /\ scanPc = "idle"
    /\ out = <<>>
    /\ workers = NoWorkers
    /\ linkStateFile = AbsentLinkFile
    /\ linkOut = AbsentOut
    /\ linkPc = "idle"
    /\ linkMem = NoLinks
    /\ records = {}

\* self._band_slices(total_bits) of a scanner with num_bands bands
BandSlices ==
    /\ \E total_bits \in 1..MaxTotalBits : \E nb \in 1..MaxNumBands :
          call' = [op |-> "_band_slices", total_bits |-> total_bits, num_bands |-> nb,
                   result |-> _band_slices(total_bits, nb)]
    /\ UNCHANGED drv
    /\ UNCHANGED scan
    /\ UNCHANGED rest

\* self._band_keys(hash_int, total_bits) of a scanner with num_bands bands
BandKeys ==
    /\ \E total_bits \in 1..MaxTotalBits : \E nb \in 1..MaxNumBands :
       \E hash_int \in 0..(Pow2(total_bits) - 1) :
          call' = [op |-> "_band_keys", total_bits |-> total_bits, num_bands |-> nb,
                   hash_int |-> hash_int,
                   slices |-> _band_slices(total_bits, nb),
                   result |-> _band_keys(hash_int, total_bits, nb)]
    /\ UNCHANGED drv
    /\ UNCHANGED scan
    /\ UNCHANGED rest

NextBands ==
    \/ BandSlices
    \/ BandKeys

SpecBands == InitBands /\ [][NextBands]_vars

\* the value of the bits of hash_int that a band covers, at their place
RECURSIVE KeysValue(_, _, _, _)
KeysValue(keys, slices, total_bits, i) ==
    IF i > Len(keys) THEN 0
    ELSE keys[i] * Pow2(total_bits - (slices[i].start + slices[i].length))
         + KeysValue(keys, slices, total_bits, i + 1)

\* C24: for every width B >= 1 and every num_bands >= 1, _band_slices returns
\* num_bands bands, the first starting at bit 0, each starting where the one
\* before ends, all of length B div num_bands but the last, which takes the
\* remainder: the lengths sum to B and every bit is in exactly one band; the
\* band keys of a hash are its bits, band by band.
C24_BandsPartition ==
    /\ call.op = "_band_slices" =>
          LET sl == call.result
              B  == call.total_bits
              nb == call.num_bands
          IN  /\ Len(sl) = nb
              /\ sl[1].start = 0
              /\ \A i \in 2..nb : sl[i].start = sl[i - 1].start + sl[i - 1].length
              /\ \A i \in 1..(nb - 1) : sl[i].length = B \div nb
              /\ sl[nb].length = B - (nb - 1) * (B \div nb)
              /\ sl[nb].start + sl[nb].length = B
              /\ \A b \in 0..(B - 1) :
                    Cardinality({i \in 1..nb :
                        sl[i].start <= b /\ b < sl[i].start + sl[i].length}) = 1
    /\ call.op = "_band_keys" =>
          /\ Len(call.result) = call.num_bands
          /\ KeysValue(call.result, call.slices, call.total_bits, 1) = call.hash_int

\* C24 witness: a width that the number of bands does not divide, and more
\* bands than bits.
C24_Witness ==
    /\ call.op = "_band_slices"
    /\ call.num_bands > 1
    /\ \/ call.total_bits % call.num_bands # 0 /\ call.total_bits > call.num_bands
       \/ call.num_bands > call.total_bits

\* ------------------------------------------------- scripts/main/generate_presigned_links.py
\* The link generation step over the keys of the hash index. An entry of the
\* link state is its generated_at seen from now: "fresh" while its age is
\* below expiry_days, "expired" after; time passes between runs.
\* LinkState.needs_refresh: no entry, or age_days >= expiry_days
needs_refresh(links, key) == links[key] # "fresh"

\* LinkState.upsert: the entry is generated now
upsert(links, key) == [links EXCEPT ![key] = "fresh"]

RECURSIVE UpsertAll(_, _)
UpsertAll(links, ks) ==
    IF ks = {} THEN links
    ELSE LET k == CHOOSE x \in ks : TRUE
         IN  UpsertAll(upsert(links, k), ks \ {k})

\* LinkState.load: the empty state for a missing file
LoadLinks(file) == IF file.kind = "absent" THEN NoLinks ELSE file.links

LinkRunning == linkPc \in {"loaded", "generated", "saved"}

InitLinks ==
    /\ linkStateFile = AbsentLinkFile
    /\ linkOut = AbsentOut
    /\ linkPc = "idle"
    /\ linkMem = NoLinks
    /\ records = {}
    /\ workers = NoWorkers
    /\ call = NoCall
    /\ catalog = [k \in Keys |-> NoObj]
    /\ stateFile = AbsentFile
    /\ indexFile = <<>>
    /\ errFile = <<>>
    /\ pc = "idle"
    /\ mem = EmptySeen
    /\ todo = <<>>
    /\ start = 0
    /\ dfBatch = <<>>
    /\ failedObjs = {}
    /\ failures = <<>>
    /\ runs = 0
    /\ changed = FALSE
    /\ ckpt = AbsentFile
    /\ total_failed = 0
    /\ processed_total = 0
    /\ hashed = 0
    /\ consolidated = FALSE
    /\ preIndex = <<>>
    /\ lostBatch = {}
    /\ atStart = [index |-> <<>>, state |-> AbsentFile, err |-> <<>>]
    /\ lastOk = FALSE
    /\ prevOk = FALSE
    /\ cause = ""
    /\ scanDf = <<>>
    /\ distance_threshold = 0
    /\ num_bands = 1
    /\ matches = {}
    /\ scanPc = "idle"
    /\ out = <<>>

\* line 54: state = LinkState.load(cfg.links_state_path); json.load raises on
\* a document that was cut short
LinkLoad ==
    /\ ~LinkRunning
    /\ records' = {}
    /\ IF linkStateFile.kind = "torn"
       THEN /\ linkPc' = "aborted"
            /\ linkMem' = NoLinks
       ELSE /\ linkPc' = "loaded"
            /\ linkMem' = LoadLinks(linkStateFile)
    /\ UNCHANGED <<linkStateFile, linkOut, workers>>
    /\ UNCHANGED drv
    /\ UNCHANGED scan
    /\ UNCHANGED call

\* line 61, generate_links: a link for every key that needs a refresh; the
\* keys whose presign succeeded are upserted and returned
GenerateLinks ==
    /\ linkPc = "loaded"
    /\ \E ok \in SUBSET {k \in Keys : needs_refresh(linkMem, k)} :
          /\ linkMem' = UpsertAll(linkMem, ok)
          /\ records' = ok
    /\ linkPc' = "generated"
    /\ UNCHANGED <<linkStateFile, linkOut, workers>>
    /\ UNCHANGED drv
    /\ UNCHANGED scan
    /\ UNCHANGED call

\* line 64: state.save(cfg.links_state_path)
SaveLinkState ==
    /\ linkPc = "generated"
    /\ linkStateFile' = [kind |-> "valid", links |-> linkMem]
    /\ linkPc' = "saved"
    /\ UNCHANGED <<linkOut, linkMem, records, workers>>
    /\ UNCHANGED drv
    /\ UNCHANGED scan
    /\ UNCHANGED call

\* line 64: the process is killed inside LinkState.save, after open(path, "w")
\* truncated the file
SaveLinkStateInterrupted ==
    /\ linkPc = "generated"
    /\ linkStateFile' = [kind |-> "torn", links |-> linkMem]
    /\ linkPc' = "killed"
    /\ linkMem' = NoLinks
    /\ records' = {}
    /\ UNCHANGED <<linkOut, workers>>
    /\ UNCHANGED drv
    /\ UNCHANGED scan
    /\ UNCHANGED call

\* lines 68-102: df_new from the records, merged with the existing link index
\* when it can be read (df_new alone when the read raises), and written
WriteLinkIndex ==
    /\ linkPc = "saved"
    /\ linkOut' = [kind |-> "valid",
                   keys |-> IF linkOut.kind = "valid"
                            THEN linkOut.keys \cup records
                            ELSE records]
    /\ linkPc' = "done"
    /\ linkMem' = NoLinks
    /\ records' = {}
    /\ UNCHANGED <<linkStateFile, workers>>
    /\ UNCHANGED drv
    /\ UNCHANGED scan
    /\ UNCHANGED call

\* line 102: write_dataframe raises or the process is killed after to_csv
\* truncated the link index: an empty file, which read_csv cannot read
WriteLinkIndexInterrupted ==
    /\ linkPc = "saved"
    /\ linkOut' = [kind |-> "unreadable", keys |-> {}]
    /\ \E p \in {"killed", "aborted"} : linkPc' = p
    /\ linkMem' = NoLinks
    /\ records' = {}
    /\ UNCHANGED <<linkStateFile, workers>>
    /\ UNCHANGED drv
    /\ UNCHANGED scan
    /\ UNCHANGED call

\* the process is killed between two steps
LinkKill ==
    /\ LinkRunning
    /\ linkPc' = "killed"
    /\ linkMem' = NoLinks
    /\ records' = {}
    /\ UNCHANGED <<linkStateFile, linkOut, workers>>
    /\ UNCHANGED drv
    /\ UNCHANGED scan
    /\ UNCHANGED call

\* between two runs the link of a key reaches the age expiry_days
LinkExpires ==
    /\ ~LinkRunning
    /\ linkStateFile.kind = "valid"
    /\ \E k \in Keys :
          /\ linkStateFile.links[k] = "fresh"
          /\ linkStateFile' = [linkStateFile EXCEPT !.links[k] = "expired"]
    /\ UNCHANGED <<linkOut, linkPc, linkMem, records, workers>>
    /\ UNCHANGED drv
    /\ UNCHANGED scan
    /\ UNCHANGED call

NextLinks ==
    \/ LinkLoad
    \/ GenerateLinks
    \/ SaveLinkState
    \/ SaveLinkStateInterrupted
    \/ WriteLinkIndex
    \/ WriteLinkIndexInterrupted
    \/ LinkKill
    \/ LinkExpires

SpecLinks == InitLinks /\ [][NextLinks]_vars

\* C28: whenever no link generation run is in progress, after a crash or a
\* write failure between the two writes included, every key that the link
\* state file records with a fresh link has a row in the link index output.
C28_FreshLinkHasRow ==
    (~LinkRunning /\ linkStateFile.kind = "valid") =>
        \A k \in Keys :
            linkStateFile.links[k] = "fresh" =>
                (linkOut.kind = "valid" /\ k \in linkOut.keys)

====
